---------------------------- MODULE Spec2Model ----------------------------
(***************************************************************************)
(* A model of src/src/main.rs: a Discord bot that drives one Kasa smart    *)
(* plug from button interactions and from two cron jobs.                   *)
(*                                                                         *)
(* Command-line tokens are sequences of one-character strings, so that     *)
(* str::contains and u32::to_string are computed as the code computes      *)
(* them.  Log messages and reply texts are plain strings.                  *)
(***************************************************************************)
EXTENDS Integers, Sequences, FiniteSets, TLC

(***************************************************************************)
(* Bounds of the model.                                                    *)
(***************************************************************************)
\* interaction handler tasks that can be in flight at once
MaxInteractions == 1
\* tokio worker threads (the runtime takes the number of CPU cores)
MaxWorkers == 2
\* guilds the bot is a member of
MaxGuilds == 2
\* channels already named like the control surface, per guild
MaxStale == 2
\* gateway ready events in the lifetime of the process
MaxReady == 2
\* length of an argument list handed to the executor on its own
MaxArgs == 2

(***************************************************************************)
(* Tokens.                                                                 *)
(***************************************************************************)
T_on == <<"o", "n">>
T_off == <<"o", "f", "f">>
T_feature == <<"f", "e", "a", "t", "u", "r", "e">>
T_auto_off_minutes ==
    <<"a", "u", "t", "o", "_", "o", "f", "f", "_", "m", "i", "n", "u", "t", "e", "s">>
T_auto_off_enabled ==
    <<"a", "u", "t", "o", "_", "o", "f", "f", "_", "e", "n", "a", "b", "l", "e", "d">>
T_True == <<"T", "r", "u", "e">>
T_False == <<"F", "a", "l", "s", "e">>
T_username == <<"u", "s", "e", "r", "n", "a", "m", "e">>
T_password == <<"p", "a", "s", "s", "w", "o", "r", "d">>
MASKED == <<"[", "M", "A", "S", "K", "E", "D", "]">>

\* the values read from the environment by Handler::new (sample values)
kasa_device_ip == <<"1", "0", ".", "0", ".", "0", ".", "9">>
kasa_username == <<"m", "e", "@", "x">>
kasa_password == <<"h", "u", "n", "t", "e", "r", "2">>

CONTROL_CHANNEL_NAME == "light-controls"

\* Option<T>: None, or Some(x)
None == <<>>
Some(x) == <<x>>

\* a field of a task record that is not set
Nil == "-"

(***************************************************************************)
(* Pure helpers.                                                           *)
(***************************************************************************)
\* str::contains(pat): pat occurs in s as a contiguous, case-sensitive substring
contains(s, pat) ==
    \E i \in 0..(Len(s) - Len(pat)) : SubSeq(s, i + 1, i + Len(pat)) = pat

Digit == <<"0", "1", "2", "3", "4", "5", "6", "7", "8", "9">>

RECURSIVE to_string(_)
\* u32::to_string: the decimal digits, most significant first
to_string(n) ==
    IF n < 10 THEN <<Digit[n + 1]>>
    ELSE to_string(n \div 10) \o <<Digit[(n % 10) + 1]>>

\* the argument list as written to the log (main.rs 118-127)
log_args(args) ==
    [i \in DOMAIN args |->
        IF contains(args[i], T_username) \/ contains(args[i], T_password)
        THEN MASKED
        ELSE args[i]]

\* the argv of the external process (main.rs 130-145)
command_line(args) ==
    << <<"u", "v">>, <<"r", "u", "n">>, <<"k", "a", "s", "a">>,
       <<"-", "-", "h", "o", "s", "t">>, kasa_device_ip,
       <<"-", "-">> \o T_username, kasa_username,
       <<"-", "-">> \o T_password, kasa_password >> \o args

(***************************************************************************)
(* Device state transitions, as the lists of executor calls they make.     *)
(* Each call is followed by `?' or is the tail call: the first failure     *)
(* ends the list (see Exit below).                                         *)
(***************************************************************************)
set_auto_off(enabled, minutes) ==
    (IF minutes # None
     THEN << <<T_feature, T_auto_off_minutes, to_string(minutes[1])>> >>
     ELSE <<>>)
    \o << <<T_feature, T_auto_off_enabled, IF enabled THEN T_True ELSE T_False>> >>

\* seeded fault: the auto-off is programmed before the light is turned on
turn_on_timed_on_last(minutes) == set_auto_off(TRUE, Some(minutes)) \o << <<T_on>> >>

turn_on_timed(minutes) == << <<T_on>> >> \o set_auto_off(TRUE, Some(minutes))

\* seeded fault: the plain turn-on programs the auto-off minutes as well
turn_on_regular_sets_minutes == << <<T_on>> >> \o set_auto_off(FALSE, Some(0))

turn_on_regular == << <<T_on>> >> \o set_auto_off(FALSE, None)

turn_off == << <<T_off>> >>


(***************************************************************************)
(* State.                                                                  *)
(***************************************************************************)
VARIABLES
    workers,          \* worker threads of the tokio runtime
    inter,            \* interaction handler tasks (serenity spawns one per event)
    job,              \* job firing tasks (the scheduler spawns one per firing)
    clock,            \* the last scheduled instant that has passed
    scheds,           \* the JobScheduler instances built by start_scheduler
    guilds,           \* what get_guilds returns
    channels,         \* the channels that exist on the gateway side
    nextId,           \* the next channel id the gateway hands out
    control_channel,  \* Handler.control_channel: None or a channel id
    lock,             \* holder of the RwLock write guard, or Nil
    ready,            \* the task running EventHandler::ready
    readyCount,       \* ready events delivered so far
    call_args,        \* an argument list handed to the executor on its own
    log_line          \* the argument list the executor logged for it

vars ==
    <<workers, inter, job, clock, scheds, guilds, channels, nextId,
      control_channel, lock, ready, readyCount, call_args, log_line>>

deviceVars == <<inter, job, clock>>
surfaceVars == <<guilds, channels, nextId, control_channel, lock, ready, readyCount>>
maskVars == <<call_args, log_line>>

Interactions == 1..MaxInteractions
JobNames == {"midnight", "5pm"}
SchedIds == 1..MaxReady
JobIds == SchedIds \X JobNames

\* the variants of serenity's Interaction enum, Component and one of the others
Kinds == {"Component", "Command"}
CustomIds ==
    {"light_on", "light_off", "light_on_15", "light_on_30", "light_on_60",
     "light_on_45", "LIGHT_ON"}

\* how a launched process can end: exit status and captured stderr
Exits ==
    { [success |-> TRUE, stderr |-> ""],
      [success |-> TRUE, stderr |-> "warning"],
      [success |-> FALSE, stderr |-> "No route to host"] }

IdleTask ==
    [pc |-> "idle", kind |-> Nil, custom_id |-> Nil, todo |-> <<>>,
     issued |-> <<>>, procs |-> <<>>, outcomes |-> <<>>, result |-> Nil,
     log |-> <<>>, content |-> Nil, replies |-> 0, delivered |-> 0]

\* the number of tasks that sit in Command::output (a blocking call of
\* std::process in an async fn), each holding a worker thread
Blocked ==
    Cardinality({i \in Interactions : inter[i].pc = "proc"})
    + Cardinality({j \in JobIds : job[j].pc = "proc"})

\* a worker thread is free to poll a task
FreeWorker == Blocked < workers

(***************************************************************************)
(* Handler::execute_light_command, on a task record.                       *)
(***************************************************************************)
\* a log line: a level, the format string, its text argument, its list argument
Info(msg, text, args) == [level |-> "info", msg |-> msg, text |-> text, args |-> args]
Error(msg, text) == [level |-> "error", msg |-> msg, text |-> text, args |-> <<>>]

\* what Command::output met: the process could not be started, or it ran and
\* ended with exit e
NotLaunched == [launched |-> FALSE, success |-> FALSE, stderr |-> ""]
Ended(e) == [launched |-> TRUE, success |-> e.success, stderr |-> e.stderr]

\* the call returns r to its caller
Returned(t, outcome, r) ==
    [t EXCEPT !.pc = "returned", !.outcomes = Append(@, outcome), !.result = r]

\* seeded fault: a command that could not be launched is issued a second time
Call_retries_launch(t, args, launched) ==
    LET t1 == [t EXCEPT !.issued = Append(@, args),
                        !.log = Append(@, Info("Executing kasa command with args: ", "",
                                               log_args(args)))]
    IN  IF launched
        THEN [t1 EXCEPT !.pc = "proc"]
        ELSE Returned([t1 EXCEPT !.issued = Append(@, args),
                                 !.procs = @ \o <<NotLaunched, NotLaunched>>],
                      "launch_error", "Failed to execute kasa command: ENOENT")

\* lines 116-149: log the masked arguments, build the command, launch it
Call(t, args, launched) ==
    LET t1 == [t EXCEPT !.issued = Append(@, args),
                        !.log = Append(@, Info("Executing kasa command with args: ", "",
                                               log_args(args)))]
    IN  IF launched
        THEN [t1 EXCEPT !.pc = "proc"]
        ELSE Returned([t1 EXCEPT !.procs = Append(@, NotLaunched)],
                      "launch_error", "Failed to execute kasa command: ENOENT")

\* a list of calls chained by `?': the first of them is made, the rest wait
Run(t, steps, launched) == Call([t EXCEPT !.todo = Tail(steps)], Head(steps), launched)

\* seeded fault: a failed command does not end the list of calls
Exit_keeps_going(t, e, launched) ==
    LET t1 == [t EXCEPT !.procs = Append(@, Ended(e)),
                        !.log = @ \o << Info("Kasa command stdout: ", "", <<>>) >>
                              \o (IF e.stderr # ""
                                  THEN << Error("Kasa command stderr: ", e.stderr) >>
                                  ELSE <<>>)]
    IN  IF t1.todo = <<>>
        THEN IF e.success THEN Returned(t1, "ok", "Ok")
             ELSE Returned(t1, "failed", "Command failed: " \o e.stderr)
        ELSE Run([t1 EXCEPT !.outcomes = Append(@, IF e.success THEN "ok" ELSE "failed")],
                 t1.todo, launched)

\* seeded fault: the exit status of the process is not looked at
Exit_ignores_status(t, e, launched) ==
    LET t1 == [t EXCEPT !.procs = Append(@, Ended(e)),
                        !.log = @ \o << Info("Kasa command stdout: ", "", <<>>) >>
                              \o (IF e.stderr # ""
                                  THEN << Error("Kasa command stderr: ", e.stderr) >>
                                  ELSE <<>>)]
    IN  IF t1.todo = <<>>
        THEN Returned(t1, "ok", "Ok")
        ELSE Run([t1 EXCEPT !.outcomes = Append(@, "ok")], t1.todo, launched)

\* lines 151-163: the process has ended with exit e
Exit(t, e, launched) ==
    LET t1 == [t EXCEPT !.procs = Append(@, Ended(e)),
                        !.log = @ \o << Info("Kasa command stdout: ", "", <<>>) >>
                              \o (IF e.stderr # ""
                                  THEN << Error("Kasa command stderr: ", e.stderr) >>
                                  ELSE <<>>)]
    IN  IF ~e.success
        THEN Returned(t1, "failed", "Command failed: " \o e.stderr)
        ELSE IF t1.todo = <<>>
             THEN Returned(t1, "ok", "Ok")
             ELSE Run([t1 EXCEPT !.outcomes = Append(@, "ok")], t1.todo, launched)

(***************************************************************************)
(* EventHandler::interaction_create.                                       *)
(***************************************************************************)
\* seeded fault: the arm of "light_on_60" carries the texts of "light_on_30"
arm_copied_text(custom_id) ==
    CASE custom_id = "light_on" ->
            [steps |-> turn_on_regular, ok |-> "Light turned on!",
             log |-> "Error turning light on: ", err |-> "Failed to turn on light"]
      [] custom_id = "light_off" ->
            [steps |-> turn_off, ok |-> "Light turned off!",
             log |-> "Error turning light off: ", err |-> "Failed to turn off light"]
      [] custom_id = "light_on_15" ->
            [steps |-> turn_on_timed(15), ok |-> "Light turned on for 15 minutes!",
             log |-> "Error setting timed light: ", err |-> "Failed to set timed light"]
      [] custom_id \in {"light_on_30", "light_on_60"} ->
            [steps |-> turn_on_timed(30), ok |-> "Light turned on for 30 minutes!",
             log |-> "Error setting timed light: ", err |-> "Failed to set timed light"]
      [] OTHER ->
            [steps |-> <<>>, ok |-> "Unknown button", log |-> "", err |-> ""]

\* the arms of the match on custom_id (lines 250-287)
arm(custom_id) ==
    CASE custom_id = "light_on" ->
            [steps |-> turn_on_regular, ok |-> "Light turned on!",
             log |-> "Error turning light on: ", err |-> "Failed to turn on light"]
      [] custom_id = "light_off" ->
            [steps |-> turn_off, ok |-> "Light turned off!",
             log |-> "Error turning light off: ", err |-> "Failed to turn off light"]
      [] custom_id = "light_on_15" ->
            [steps |-> turn_on_timed(15), ok |-> "Light turned on for 15 minutes!",
             log |-> "Error setting timed light: ", err |-> "Failed to set timed light"]
      [] custom_id = "light_on_30" ->
            [steps |-> turn_on_timed(30), ok |-> "Light turned on for 30 minutes!",
             log |-> "Error setting timed light: ", err |-> "Failed to set timed light"]
      [] custom_id = "light_on_60" ->
            [steps |-> turn_on_timed(60), ok |-> "Light turned on for 60 minutes!",
             log |-> "Error setting timed light: ", err |-> "Failed to set timed light"]
      [] OTHER ->
            [steps |-> <<>>, ok |-> "Unknown button", log |-> "", err |-> ""]

\* lines 289-298: create_response is called with the content, and awaited
Respond(t, content) ==
    [t EXCEPT !.pc = "replying", !.content = content, !.replies = @ + 1]

\* seeded fault: the error arm logs and returns without a reply
Matched_silent_on_error(t) ==
    IF t.pc # "returned" THEN t
    ELSE IF t.result = "Ok" THEN Respond(t, arm(t.custom_id).ok)
    ELSE [t EXCEPT !.pc = "done",
                   !.log = Append(@, Error(arm(t.custom_id).log, t.result))]

\* seeded fault: the error arm replies with the error it was returned
Matched_replies_detail(t) ==
    IF t.pc # "returned" THEN t
    ELSE IF t.result = "Ok" THEN Respond(t, arm(t.custom_id).ok)
    ELSE Respond([t EXCEPT !.log = Append(@, Error(arm(t.custom_id).log, t.result))],
                 t.result)

\* seeded fault: the reply is sent as soon as the first command is running
Matched_replies_early(t) ==
    IF t.pc = "proc" /\ t.replies = 0
    THEN [t EXCEPT !.content = arm(t.custom_id).ok, !.replies = @ + 1]
    ELSE IF t.pc # "returned" THEN t
    ELSE IF t.result = "Ok" THEN [t EXCEPT !.pc = "replying"]
    ELSE [t EXCEPT !.pc = "replying",
                   !.log = Append(@, Error(arm(t.custom_id).log, t.result))]

\* the match arm once its device operation has returned
Matched(t) ==
    IF t.pc # "returned" THEN t
    ELSE IF t.result = "Ok" THEN Respond(t, arm(t.custom_id).ok)
    ELSE Respond([t EXCEPT !.log = Append(@, Error(arm(t.custom_id).log, t.result))],
                 arm(t.custom_id).err)

\* the gateway delivers an interaction: serenity spawns the handler task
InteractionDispatch(i, kind, custom_id) ==
    /\ inter[i].pc = "idle"
    /\ inter' = [inter EXCEPT ![i] =
                    [IdleTask EXCEPT !.pc = "spawned", !.kind = kind,
                                     !.custom_id = IF kind = "Component"
                                                   THEN custom_id ELSE Nil]]
    /\ UNCHANGED <<workers, job, clock, scheds, surfaceVars, maskVars>>

\* lines 248-287: the handler runs up to its first blocking or suspending call
interaction_create(i, launched) ==
    /\ inter[i].pc = "spawned"
    /\ FreeWorker
    /\ inter' = [inter EXCEPT ![i] =
                    IF @.kind # "Component" THEN [@ EXCEPT !.pc = "done"]
                    ELSE IF arm(@.custom_id).steps = <<>>
                         THEN Respond(@, arm(@.custom_id).ok)
                         ELSE Matched(Run(@, arm(@.custom_id).steps, launched))]
    /\ UNCHANGED <<workers, job, clock, scheds, surfaceVars, maskVars>>

\* the external process of an interaction's command ends
InteractionProcExit(i, e, launched) ==
    /\ inter[i].pc = "proc"
    /\ inter' = [inter EXCEPT ![i] = Matched(Exit(@, e, launched))]
    /\ UNCHANGED <<workers, job, clock, scheds, surfaceVars, maskVars>>

\* lines 289-301: create_response completes
create_response(i, ok) ==
    /\ inter[i].pc = "replying"
    /\ FreeWorker
    /\ inter' = [inter EXCEPT ![i] =
                    IF ok THEN [@ EXCEPT !.pc = "done", !.delivered = @ + 1]
                    ELSE [@ EXCEPT !.pc = "done",
                                   !.log = Append(@, Error("Cannot respond to button: ",
                                                           "Http error"))]]
    /\ UNCHANGED <<workers, job, clock, scheds, surfaceVars, maskVars>>

\* the finished handler task is dropped
InteractionRetire(i) ==
    /\ inter[i].pc = "done"
    /\ inter' = [inter EXCEPT ![i] = IdleTask]
    /\ UNCHANGED <<workers, job, clock, scheds, surfaceVars, maskVars>>

(***************************************************************************)
(* The two cron jobs of Handler::start_scheduler, and their firings.       *)
(***************************************************************************)
\* the closures of lines 210-220 ("0 0 0 * * *") and 226-236 ("0 0 17 * * *")
job_closure(name) ==
    IF name = "midnight"
    THEN [at |-> "00:00", steps |-> << <<T_off>> >>,
          entry |-> "Running midnight job at ",
          err |-> "Failed to execute midnight light off command: ",
          ok |-> "Successfully turned off light at midnight"]
    ELSE [at |-> "17:00", steps |-> << <<T_on>> >>,
          entry |-> "Running 5 PM job at ",
          err |-> "Failed to execute 5 PM light on command: ",
          ok |-> "Successfully turned on light at 5 PM"]

\* the closure once its command has returned: the outcome is logged
Logged(t, name) ==
    IF t.pc # "returned" THEN t
    ELSE IF t.result = "Ok"
         THEN [t EXCEPT !.pc = "done",
                        !.log = Append(@, Info(job_closure(name).ok, "", <<>>))]
         ELSE [t EXCEPT !.pc = "done",
                        !.log = Append(@, Error(job_closure(name).err, t.result))]

\* the jobs of the running schedulers that are due at instant at
Due(at) ==
    {j \in JobIds : /\ scheds[j[1]].state = "running"
                    /\ j[2] \in scheds[j[1]].jobs
                    /\ job_closure(j[2]).at = at}

\* the wall clock reaches the next scheduled instant: every running scheduler
\* spawns a task for each of its jobs that is due
Tick ==
    /\ clock' = IF clock = "00:00" THEN "17:00" ELSE "00:00"
    /\ \A j \in Due(clock') : job[j].pc = "idle"
    /\ job' = [j \in JobIds |->
                  IF j \in Due(clock') THEN [IdleTask EXCEPT !.pc = "spawned"]
                  ELSE job[j]]
    /\ UNCHANGED <<workers, inter, scheds, surfaceVars, maskVars>>

\* lines 212-214, 228-230: the spawned closure runs up to its blocking call
job_run(j, launched) ==
    /\ job[j].pc = "spawned"
    /\ FreeWorker
    /\ job' = [job EXCEPT ![j] =
                  Logged(Run([@ EXCEPT !.log = Append(@, Info(job_closure(j[2]).entry,
                                                             clock, <<>>))],
                             job_closure(j[2]).steps, launched),
                         j[2])]
    /\ UNCHANGED <<workers, inter, clock, scheds, surfaceVars, maskVars>>

\* seeded fault: a failed firing takes its scheduler down
JobProcExit_stops_scheduler(j, e) ==
    /\ job[j].pc = "proc"
    /\ job' = [job EXCEPT ![j] = Logged(Exit(@, e, TRUE), j[2])]
    /\ scheds' = IF e.success THEN scheds
                 ELSE [scheds EXCEPT ![j[1]].state = "dropped"]
    /\ UNCHANGED <<workers, inter, clock, surfaceVars, maskVars>>

\* the external process of a job's command ends
JobProcExit(j, e) ==
    /\ job[j].pc = "proc"
    /\ job' = [job EXCEPT ![j] = Logged(Exit(@, e, TRUE), j[2])]
    /\ UNCHANGED <<workers, inter, clock, scheds, surfaceVars, maskVars>>

\* the finished job task is dropped
JobRetire(j) ==
    /\ job[j].pc = "done"
    /\ job' = [job EXCEPT ![j] = IdleTask]
    /\ UNCHANGED <<workers, inter, clock, scheds, surfaceVars, maskVars>>

(***************************************************************************)
(* EventHandler::ready: Handler::setup_control_channel, then               *)
(* Handler::start_scheduler.  Every gateway call is a suspension point:    *)
(* pc names the call the task is waiting on.                               *)
(***************************************************************************)
\* left, guild, todo, cur, chan: the locals of setup_control_channel.  log: the
\* error lines written.  found, errs, made: for each guild of this run, how many
\* channels of the control name the listing showed, whether a call failed, and
\* the channel created.
IdleReady ==
    [pc |-> "idle", left |-> <<>>, guild |-> 0, todo |-> {}, cur |-> 0, chan |-> 0,
     found |-> 0, errs |-> {}, made |-> {}, log |-> {}]

\* the channels of guild g that the deletion loop deletes (line 58)
stale(g) == {c \in channels : c.guild = g /\ c.name = CONTROL_CHANNEL_NAME}

\* line 53: the loop over the guilds; after it, ready calls start_scheduler
NextGuild(r) ==
    IF r.left = <<>>
    THEN [r EXCEPT !.pc = "scheduler_new", !.guild = 0, !.todo = {}, !.cur = 0]
    ELSE [r EXCEPT !.pc = "channels", !.guild = Head(r.left), !.left = Tail(r.left),
                   !.todo = {}, !.cur = 0, !.chan = 0, !.found = 0]

\* seeded fault: the deletion loop ends after the first channel it deletes
Visit_first_only(r) ==
    IF r.todo = {} \/ r.cur # 0
    THEN {[r EXCEPT !.pc = "create_channel", !.cur = 0]}
    ELSE {[r EXCEPT !.pc = "delete", !.cur = c, !.todo = @ \ {c}] : c \in r.todo}

\* line 57: the loop over the listed channels (a HashMap: any order); after it,
\* the new channel is created
Visit(r) ==
    IF r.todo = {}
    THEN {[r EXCEPT !.pc = "create_channel", !.cur = 0]}
    ELSE {[r EXCEPT !.pc = "delete", !.cur = c, !.todo = @ \ {c}] : c \in r.todo}

\* seeded fault: the handler forgets the reference before it rebuilds
Ready_clears_reference ==
    /\ ready.pc = "idle"
    /\ readyCount < MaxReady
    /\ FreeWorker
    /\ readyCount' = readyCount + 1
    /\ ready' = [IdleReady EXCEPT !.pc = "get_guilds"]
    /\ control_channel' = None
    /\ UNCHANGED <<workers, deviceVars, scheds, guilds, channels, nextId,
                   lock, maskVars>>

\* the gateway delivers a ready event: the handler task starts and calls get_guilds
Ready ==
    /\ ready.pc = "idle"
    /\ readyCount < MaxReady
    /\ FreeWorker
    /\ readyCount' = readyCount + 1
    /\ ready' = [IdleReady EXCEPT !.pc = "get_guilds"]
    /\ UNCHANGED <<workers, deviceVars, scheds, guilds, channels, nextId,
                   control_channel, lock, maskVars>>

\* line 51: get_guilds returns; an error is taken as no guilds
get_guilds(ok) ==
    /\ ready.pc = "get_guilds"
    /\ FreeWorker
    /\ ready' = NextGuild([ready EXCEPT !.left = IF ok THEN guilds ELSE <<>>])
    /\ UNCHANGED <<workers, deviceVars, scheds, guilds, channels, nextId,
                   control_channel, lock, readyCount, maskVars>>

\* line 56: the channel listing returns; an error skips the deletions
list_channels(ok) ==
    /\ ready.pc = "channels"
    /\ FreeWorker
    /\ ready' \in
          IF ok
          THEN Visit([ready EXCEPT !.todo = {c.id : c \in stale(ready.guild)},
                                   !.found = Cardinality(stale(ready.guild))])
          ELSE Visit([ready EXCEPT !.errs = @ \cup {ready.guild}])
    /\ UNCHANGED <<workers, deviceVars, scheds, guilds, channels, nextId,
                   control_channel, lock, readyCount, maskVars>>

\* seeded fault: a failed deletion ends the rebuild and the ready handler
delete_channel_aborts_on_error(ok) ==
    /\ ready.pc = "delete"
    /\ FreeWorker
    /\ channels' = IF ok THEN {c \in channels : c.id # ready.cur} ELSE channels
    /\ ready' \in
          IF ok
          THEN Visit(ready)
          ELSE {[ready EXCEPT !.pc = "idle", !.errs = @ \cup {ready.guild},
                    !.log = @ \cup {Error("Failed to delete old control channel: ", "Http error")}]}
    /\ UNCHANGED <<workers, deviceVars, scheds, guilds, nextId,
                   control_channel, lock, readyCount, maskVars>>

\* lines 59-61: the deletion of channel cur returns; an error is logged
delete_channel(ok) ==
    /\ ready.pc = "delete"
    /\ FreeWorker
    /\ channels' = IF ok THEN {c \in channels : c.id # ready.cur} ELSE channels
    /\ ready' \in
          IF ok
          THEN Visit(ready)
          ELSE Visit([ready EXCEPT !.errs = @ \cup {ready.guild},
                         !.log = @ \cup {Error("Failed to delete old control channel: ", "Http error")}])
    /\ UNCHANGED <<workers, deviceVars, scheds, guilds, nextId,
                   control_channel, lock, readyCount, maskVars>>

\* seeded fault: a failed creation forgets the reference
create_channel_clears_on_error(ok) ==
    /\ ready.pc = "create_channel"
    /\ FreeWorker
    /\ IF ok
       THEN /\ lock = Nil
            /\ lock' = "ready"
            /\ channels' = channels \cup
                  {[id |-> nextId, guild |-> ready.guild, name |-> CONTROL_CHANNEL_NAME]}
            /\ nextId' = nextId + 1
            /\ control_channel' = Some(nextId)
            /\ ready' = [ready EXCEPT !.pc = "send_message", !.chan = nextId,
                            !.made = @ \cup {[guild |-> ready.guild, id |-> nextId,
                                              found |-> ready.found]}]
       ELSE /\ ready' = NextGuild([ready EXCEPT !.errs = @ \cup {ready.guild},
                             !.log = @ \cup {Error("Error creating control channel: ", "Http error")}])
            /\ control_channel' = None
            /\ UNCHANGED <<channels, nextId, lock>>
    /\ UNCHANGED <<workers, deviceVars, scheds, guilds, readyCount, maskVars>>

\* lines 67-77, 111: create_channel returns.  On success the write guard is
\* taken, the id is stored and send_message is called with the guard alive.
create_channel(ok) ==
    /\ ready.pc = "create_channel"
    /\ FreeWorker
    /\ IF ok
       THEN /\ lock = Nil
            /\ lock' = "ready"
            /\ channels' = channels \cup
                  {[id |-> nextId, guild |-> ready.guild, name |-> CONTROL_CHANNEL_NAME]}
            /\ nextId' = nextId + 1
            /\ control_channel' = Some(nextId)
            /\ ready' = [ready EXCEPT !.pc = "send_message", !.chan = nextId,
                            !.made = @ \cup {[guild |-> ready.guild, id |-> nextId,
                                              found |-> ready.found]}]
       ELSE /\ ready' = NextGuild([ready EXCEPT !.errs = @ \cup {ready.guild},
                             !.log = @ \cup {Error("Error creating control channel: ", "Http error")}])
            /\ UNCHANGED <<channels, nextId, control_channel, lock>>
    /\ UNCHANGED <<workers, deviceVars, scheds, guilds, readyCount, maskVars>>

\* lines 79-110: send_message returns; an error is logged.  The write guard
\* goes out of scope at the end of the match arm.
send_message(ok) ==
    /\ ready.pc = "send_message"
    /\ FreeWorker
    /\ lock' = Nil
    /\ ready' = IF ok THEN NextGuild(ready)
                ELSE NextGuild([ready EXCEPT !.errs = @ \cup {ready.guild},
                                   !.log = @ \cup {Error("Error sending control message: ", "Http error")}])
    /\ UNCHANGED <<workers, deviceVars, scheds, guilds, channels, nextId,
                   control_channel, readyCount, maskVars>>

(***************************************************************************)
(* Handler::start_scheduler, called by ready after the rebuild.  The k-th  *)
(* ready event builds JobScheduler number k.                               *)
(***************************************************************************)
NoScheduler == [state |-> "none", jobs |-> {}]

\* seeded fault: a scheduler that was built is started although a step failed
SchedulerFailed_starts_anyway ==
    /\ scheds' = [scheds EXCEPT ![readyCount].state =
                      IF @ = "built" THEN "running" ELSE "dropped"]
    /\ ready' = [ready EXCEPT !.pc = "idle",
                    !.log = @ \cup {Error("Failed to start scheduler: ", "error")}]

\* lines 308-310: start_scheduler returned an error through one of its `?':
\* ready logs it, and the scheduler built so far is dropped
SchedulerFailed ==
    /\ scheds' = [scheds EXCEPT ![readyCount].state = "dropped"]
    /\ ready' = [ready EXCEPT !.pc = "idle",
                    !.log = @ \cup {Error("Failed to start scheduler: ", "error")}]

\* line 196: JobScheduler::new returns
scheduler_new(ok) ==
    /\ ready.pc = "scheduler_new"
    /\ FreeWorker
    /\ IF ok
       THEN /\ scheds' = [scheds EXCEPT ![readyCount].state = "built"]
            /\ ready' = [ready EXCEPT !.pc = "add_midnight"]
       ELSE SchedulerFailed
    /\ UNCHANGED <<workers, deviceVars, guilds, channels, nextId, control_channel,
                   lock, readyCount, maskVars>>

\* lines 209-221: the midnight job is built and added
add_midnight(ok) ==
    /\ ready.pc = "add_midnight"
    /\ FreeWorker
    /\ IF ok
       THEN /\ scheds' = [scheds EXCEPT ![readyCount].jobs = @ \cup {"midnight"}]
            /\ ready' = [ready EXCEPT !.pc = "add_5pm"]
       ELSE SchedulerFailed
    /\ UNCHANGED <<workers, deviceVars, guilds, channels, nextId, control_channel,
                   lock, readyCount, maskVars>>

\* lines 224-237: the 17:00 job is built and added
add_5pm(ok) ==
    /\ ready.pc = "add_5pm"
    /\ FreeWorker
    /\ IF ok
       THEN /\ scheds' = [scheds EXCEPT ![readyCount].jobs = @ \cup {"5pm"}]
            /\ ready' = [ready EXCEPT !.pc = "start"]
       ELSE SchedulerFailed
    /\ UNCHANGED <<workers, deviceVars, guilds, channels, nextId, control_channel,
                   lock, readyCount, maskVars>>

\* lines 240-242: scheduler.start returns; ready returns
scheduler_start(ok) ==
    /\ ready.pc = "start"
    /\ FreeWorker
    /\ IF ok
       THEN /\ scheds' = [scheds EXCEPT ![readyCount].state = "running"]
            /\ ready' = [ready EXCEPT !.pc = "idle"]
       ELSE SchedulerFailed
    /\ UNCHANGED <<workers, deviceVars, guilds, channels, nextId, control_channel,
                   lock, readyCount, maskVars>>

(***************************************************************************)
(* The masking of the logged argument list, on its own.                    *)
(***************************************************************************)
MaskTokens ==
    { T_on, T_feature, T_username, T_password,
      <<"-", "-">> \o T_username, <<"-", "-">> \o T_password \o <<"=", "x">>,
      <<"U", "S", "E", "R", "N", "A", "M", "E">>,
      <<"-", "-", "P", "a", "s", "s", "w", "o", "r", "d">>,
      <<"u", "s", "e", "r">>, <<"p", "a", "s", "s">> }

ArgLists == UNION {[1..n -> MaskTokens] : n \in 0..MaxArgs}

\* lines 116-128: execute_light_command is entered with args and logs them
LogCommand(args) ==
    /\ call_args' = args
    /\ log_line' = log_args(args)
    /\ UNCHANGED <<workers, deviceVars, scheds, surfaceVars>>

(***************************************************************************)
(* Initial states and specifications.                                      *)
(***************************************************************************)
Guilds == 1..MaxGuilds

\* the channels that exist before the first ready event: per guild one channel
\* of another name and n[g] channels named like the control surface
OldChannels(n) ==
    UNION {
        {[id |-> (g - 1) * (MaxStale + 1) + 1, guild |-> g, name |-> "general"]}
        \cup {[id |-> (g - 1) * (MaxStale + 1) + 1 + k, guild |-> g,
               name |-> CONTROL_CHANNEL_NAME] : k \in 1..n[g]}
        : g \in Guilds}

\* the state Handler::new and main leave (lines 41-47, 314-332)
Init ==
    /\ workers \in 1..MaxWorkers
    /\ inter = [i \in Interactions |-> IdleTask]
    /\ job = [j \in JobIds |-> IdleTask]
    /\ clock \in {"00:00", "17:00"}
    /\ scheds = [k \in SchedIds |-> NoScheduler]
    /\ \E n \in 0..MaxGuilds : guilds = [g \in 1..n |-> g]
    /\ \E n \in [Guilds -> 0..MaxStale] : channels = OldChannels(n)
    /\ nextId = MaxGuilds * (MaxStale + 1) + 1
    /\ control_channel = None
    /\ lock = Nil
    /\ ready = IdleReady
    /\ readyCount = 0
    /\ call_args = <<>>
    /\ log_line = <<>>

\* the state after one ready event handled without any error, in one guild
\* without stale channels: the surface exists and one scheduler runs
InitRunning ==
    /\ workers \in 1..MaxWorkers
    /\ inter = [i \in Interactions |-> IdleTask]
    /\ job = [j \in JobIds |-> IdleTask]
    /\ clock \in {"00:00", "17:00"}
    /\ scheds = [k \in SchedIds |->
                    IF k = 1 THEN [state |-> "running", jobs |-> JobNames]
                    ELSE NoScheduler]
    /\ guilds = <<1>>
    /\ channels = OldChannels([g \in Guilds |-> 0])
                  \cup {[id |-> MaxGuilds * (MaxStale + 1) + 1, guild |-> 1,
                         name |-> CONTROL_CHANNEL_NAME]}
    /\ nextId = MaxGuilds * (MaxStale + 1) + 2
    /\ control_channel = Some(MaxGuilds * (MaxStale + 1) + 1)
    /\ lock = Nil
    /\ ready = IdleReady
    /\ readyCount = 1
    /\ call_args = <<>>
    /\ log_line = <<>>

InteractionNext ==
    \/ \E i \in Interactions, k \in Kinds, c \in CustomIds : InteractionDispatch(i, k, c)
    \/ \E i \in Interactions, l \in BOOLEAN : interaction_create(i, l)
    \/ \E i \in Interactions, e \in Exits, l \in BOOLEAN : InteractionProcExit(i, e, l)
    \/ \E i \in Interactions, ok \in BOOLEAN : create_response(i, ok)
    \/ \E i \in Interactions : InteractionRetire(i)

JobNext ==
    \/ Tick
    \/ \E j \in JobIds, l \in BOOLEAN : job_run(j, l)
    \/ \E j \in JobIds, e \in Exits : JobProcExit(j, e)
    \/ \E j \in JobIds : JobRetire(j)

SurfaceNext ==
    \/ Ready
    \/ \E ok \in BOOLEAN : get_guilds(ok)
    \/ \E ok \in BOOLEAN : list_channels(ok)
    \/ \E ok \in BOOLEAN : delete_channel(ok)
    \/ \E ok \in BOOLEAN : create_channel(ok)
    \/ \E ok \in BOOLEAN : send_message(ok)

SchedulerNext ==
    \/ \E ok \in BOOLEAN : scheduler_new(ok)
    \/ \E ok \in BOOLEAN : add_midnight(ok)
    \/ \E ok \in BOOLEAN : add_5pm(ok)
    \/ \E ok \in BOOLEAN : scheduler_start(ok)

MaskNext == \E args \in ArgLists : LogCommand(args)

\* the whole program
Next == InteractionNext \/ JobNext \/ SurfaceNext \/ SchedulerNext

Spec == Init /\ [][Next]_vars

\* the running service: interactions and job firings
DeviceNext == InteractionNext \/ JobNext

SpecDevice == InitRunning /\ [][DeviceNext]_vars

\* the running service, its interactions alone
SpecInteraction == InitRunning /\ [][InteractionNext]_vars

\* the running service, its job firings alone
SpecJobs == InitRunning /\ [][JobNext]_vars

\* the startup: ready events, the surface rebuild and the scheduler start
SurfaceSchedulerNext == SurfaceNext \/ SchedulerNext

\* (no handler or job task runs in it: one worker, and the clock stands still)
InitStartup == Init /\ workers = 1 /\ clock = "00:00"

SpecSurface == InitStartup /\ [][SurfaceSchedulerNext]_vars

\* processes that end without a warning on stderr
PlainExits == {e \in Exits : e.stderr # "warning"}

\* presses of the "Turn Off" button, with a tool that can be launched
LightOffNext ==
    \/ \E i \in Interactions : InteractionDispatch(i, "Component", "light_off")
    \/ \E i \in Interactions : interaction_create(i, TRUE)
    \/ \E i \in Interactions, e \in PlainExits : InteractionProcExit(i, e, TRUE)
    \/ \E i \in Interactions : create_response(i, TRUE)
    \/ \E i \in Interactions : InteractionRetire(i)

\* job firings, with a tool that can be launched
FiringNext ==
    \/ Tick
    \/ \E j \in JobIds : job_run(j, TRUE)
    \/ \E j \in JobIds, e \in PlainExits : JobProcExit(j, e)
    \/ \E j \in JobIds : JobRetire(j)

\* the startup, with the "Turn Off" button pressed at any time
StartupNext == SurfaceSchedulerNext \/ LightOffNext

SpecStartup == InitStartup /\ [][StartupNext]_vars

\* a further ready event in the running service, with button presses and job
\* firings at any time
RestartNext == SurfaceSchedulerNext \/ LightOffNext \/ FiringNext

SpecRestart == InitRunning /\ [][RestartNext]_vars

\* the executor's log line for any argument list
SpecMask == InitRunning /\ [][MaskNext]_vars

(***************************************************************************)
(* Properties.                                                             *)
(***************************************************************************)
IsPrefix(p, q) == Len(p) <= Len(q) /\ SubSeq(q, 1, Len(p)) = p

\* the handler of interaction i has computed its reply
Finished(t) == t.pc \in {"replying", "done"}

Buttons == {i \in Interactions : inter[i].kind = "Component"}

\* the executor calls each Device State Transition is specified to make
\* (a step is an argument list, an argument list is a list of tokens)
StepsOn == << << <<"o", "n">> >> >>
StepsOff == << << <<"o", "f", "f">> >> >>
StepsAutoOff(value) == << <<T_feature, T_auto_off_enabled, value>> >>
StepsMinutes(m) == << <<T_feature, T_auto_off_minutes, m>> >>
StepsTimed(m) == StepsOn \o StepsMinutes(m) \o StepsAutoOff(<<"T", "r", "u", "e">>)
StepsPlain == StepsOn \o StepsAutoOff(<<"F", "a", "l", "s", "e">>)

TimedIds == {"light_on_15", "light_on_30", "light_on_60"}

MinutesOf(custom_id) ==
    CASE custom_id = "light_on_15" -> <<"1", "5">>
      [] custom_id = "light_on_30" -> <<"3", "0">>
      [] custom_id = "light_on_60" -> <<"6", "0">>

\* the step list the router table gives an identifier
StepsOf(custom_id) ==
    CASE custom_id = "light_on" -> StepsPlain
      [] custom_id = "light_off" -> StepsOff
      [] custom_id \in TimedIds -> StepsTimed(MinutesOf(custom_id))
      [] OTHER -> <<>>

\* C1: a timed-on operation issues "on", then "feature auto_off_minutes m",
\* then "feature auto_off_enabled True", in this order and nothing else; no
\* auto-off command is issued before "on" has completed with success, and if
\* the minutes-set step fails the enable step is never issued.
C1_TimedOnOrder ==
    \A i \in Buttons :
        LET t == inter[i] IN
        t.custom_id \in TimedIds =>
            /\ IsPrefix(t.issued, StepsTimed(MinutesOf(t.custom_id)))
            /\ Len(t.issued) >= 2 => (Len(t.outcomes) >= 1 /\ t.outcomes[1] = "ok")
            /\ Len(t.issued) >= 3 => (Len(t.outcomes) >= 2 /\ t.outcomes[2] = "ok")
            /\ (Len(t.outcomes) >= 2 /\ t.outcomes[2] # "ok") => Len(t.issued) = 2
            /\ t.result = "Ok" => t.issued = StepsTimed(MinutesOf(t.custom_id))

C1_Witness ==
    \E i \in Buttons :
        /\ inter[i].custom_id = "light_on_30"
        /\ inter[i].result = "Ok"
        /\ Len(inter[i].issued) = 3

\* C2 (as claimed): a firing of the 17:00 job that succeeds has issued "on"
\* and then "feature auto_off_enabled False"; a firing of the 00:00 job that
\* succeeds has issued only "off".
C2_JobsPerformTransitions ==
    \A j \in JobIds :
        (job[j].pc = "done" /\ job[j].result = "Ok") =>
            job[j].issued = IF j[2] = "5pm" THEN StepsPlain ELSE StepsOff

\* a task is waiting on a gateway call or on an external process
Suspended ==
    \/ ready.pc \in {"get_guilds", "channels", "delete", "create_channel",
                     "send_message"}
    \/ \E i \in Interactions : inter[i].pc \in {"proc", "replying"}
    \/ \E j \in JobIds : job[j].pc = "proc"

\* C3 (as claimed): whenever a task is waiting on a gateway network call or on
\* an external process, nobody holds the lock of the control-surface reference.
C3_NoLockAcrossSuspension == Suspended => lock = Nil

\* the error an executor call returns for a step that did not succeed
FailureOf(outcome) ==
    IF outcome = "launch_error" THEN "Failed to execute kasa command: ENOENT"
    ELSE "Command failed: No route to host"

\* C4: the commands issued by a multi-step operation are the prefix of its step
\* list up to and including the first failing step, and the operation returns
\* that first failure; "light_on_30" replies "Failed to set timed light" after
\* one attempt when "on" fails and after two when the minutes-set step fails.
C4_FailFast ==
    \A i \in Buttons :
        LET t == inter[i]
            steps == StepsOf(t.custom_id)
        IN  /\ IsPrefix(t.issued, steps)
            /\ Len(t.issued) - 1 <= Len(t.outcomes) /\ Len(t.outcomes) <= Len(t.issued)
            /\ \A k \in DOMAIN t.outcomes :
                  t.outcomes[k] # "ok" =>
                      /\ k = Len(t.issued)
                      /\ Finished(t)
                      /\ t.result = FailureOf(t.outcomes[k])
            /\ Finished(t) =>
                  /\ Len(t.outcomes) = Len(t.issued)
                  /\ (\A k \in DOMAIN t.outcomes : t.outcomes[k] = "ok") =>
                        (t.issued = steps /\ (steps # <<>> => t.result = "Ok"))
            /\ (t.custom_id = "light_on_30" /\ Finished(t) /\ t.result # "Ok") =>
                  /\ t.content = "Failed to set timed light"
                  /\ t.outcomes[1] # "ok" => Len(t.issued) = 1
                  /\ (t.outcomes[1] = "ok" /\ t.outcomes[2] # "ok") => Len(t.issued) = 2

C4_Witness ==
    \E i \in Buttons :
        /\ inter[i].custom_id = "light_on_30"
        /\ inter[i].outcomes = <<"ok", "failed">>
        /\ inter[i].content = "Failed to set timed light"

\* the channels of guild g that carry the control-surface name
Surfaces(g) == {c \in channels : c.guild = g /\ c.name = "light-controls"}

\* C5: when the rebuild has run for a guild without any failed call, exactly
\* one channel of the control name exists in the guild, the one just created
\* (the stale ones are all deleted before it is created, and it is never
\* deleted), and at the end of the guild's turn the reference holds its id.
C5_RebuildLeavesOneSurface ==
    /\ [](/\ \A m \in ready.made :
                m.guild \notin ready.errs =>
                    Surfaces(m.guild) =
                        {[id |-> m.id, guild |-> m.guild, name |-> "light-controls"]}
          /\ (ready.pc = "create_channel" /\ ready.guild \notin ready.errs) =>
                Surfaces(ready.guild) = {}
          /\ ready.pc = "delete" => \A m \in ready.made : m.id # ready.cur)
    /\ [][(/\ ready.pc = "send_message"
           /\ ready'.pc # "send_message"
           /\ ready.guild \notin ready'.errs)
          => (/\ control_channel' = Some(ready.chan)
              /\ Cardinality({c \in channels' : c.guild = ready.guild
                                               /\ c.name = "light-controls"}) = 1)]_vars

C5_Witness ==
    /\ ready.pc = "scheduler_new"
    /\ \E m \in ready.made :
          /\ m.found = 2
          /\ m.guild \notin ready.errs
          /\ control_channel = Some(m.id)

\* C6 (as claimed): a job firing and an interaction handled at the same time
\* do not wait for each other: while the external process of one of them runs,
\* the other, once spawned, can be polled.
C6_TasksIndependent ==
    \A i \in Interactions, j \in JobIds :
        (\/ inter[i].pc = "proc" /\ job[j].pc = "spawned"
         \/ job[j].pc = "proc" /\ inter[i].pc = "spawned")
        => FreeWorker

\* C7 (as claimed): every interaction whose handler has returned got exactly
\* one reply.
C7_EveryInteractionOneReply ==
    \A i \in Interactions : inter[i].pc = "done" => inter[i].replies = 1

\* C7 (amended): a component interaction gets exactly one reply, sent when its
\* commands are over, whatever its identifier and their outcome; an interaction
\* of another kind gets none.  No interaction ever gets more than one.
C7_ComponentOneReply ==
    \A i \in Interactions :
        LET t == inter[i] IN
        /\ t.replies <= 1
        /\ t.delivered <= t.replies
        /\ (t.kind = "Component" /\ Finished(t)) => t.replies = 1
        /\ (t.kind = "Component" /\ ~Finished(t)) => t.replies = 0
        /\ t.kind # "Component" => t.replies = 0

C7_Witness ==
    \E i \in Buttons :
        /\ inter[i].pc = "done"
        /\ inter[i].outcomes = <<"launch_error">>
        /\ inter[i].replies = 1

SuccessText(custom_id) ==
    CASE custom_id = "light_on" -> "Light turned on!"
      [] custom_id = "light_off" -> "Light turned off!"
      [] custom_id = "light_on_15" -> "Light turned on for 15 minutes!"
      [] custom_id = "light_on_30" -> "Light turned on for 30 minutes!"
      [] custom_id = "light_on_60" -> "Light turned on for 60 minutes!"

FailureText(custom_id) ==
    CASE custom_id = "light_on" -> "Failed to turn on light"
      [] custom_id = "light_off" -> "Failed to turn off light"
      [] custom_id \in TimedIds -> "Failed to set timed light"

KnownIds == {"light_on", "light_off"} \cup TimedIds

\* every step of the list was issued and succeeded
AllSucceeded(t, steps) ==
    /\ t.issued = steps
    /\ Len(t.outcomes) = Len(steps)
    /\ \A k \in DOMAIN t.outcomes : t.outcomes[k] = "ok"

\* C8: the router runs the operation the table gives the identifier and
\* replies the success text iff every executor step succeeded, else the
\* failure text; any other identifier replies "Unknown button" and issues no
\* command.
C8_RouterTable ==
    \A i \in Buttons :
        LET t == inter[i] IN
        IF t.custom_id \in KnownIds
        THEN /\ IsPrefix(t.issued, StepsOf(t.custom_id))
             /\ t.pc # "spawned" => t.issued # <<>>
             /\ Finished(t) =>
                   /\ t.content \in {SuccessText(t.custom_id), FailureText(t.custom_id)}
                   /\ t.content = SuccessText(t.custom_id)
                         <=> AllSucceeded(t, StepsOf(t.custom_id))
        ELSE /\ t.issued = <<>>
             /\ t.pc # "proc"
             /\ Finished(t) => t.content = "Unknown button"

C8_Witness ==
    \E i \in Buttons :
        /\ inter[i].custom_id = "light_on_60"
        /\ inter[i].content = "Light turned on for 60 minutes!"
        /\ inter[i].pc = "done"

UpperCase == <<"A", "B", "C", "D", "E", "F", "G", "H", "I", "J", "K", "L", "M",
               "N", "O", "P", "Q", "R", "S", "T", "U", "V", "W", "X", "Y", "Z">>
LowerCase == <<"a", "b", "c", "d", "e", "f", "g", "h", "i", "j", "k", "l", "m",
               "n", "o", "p", "q", "r", "s", "t", "u", "v", "w", "x", "y", "z">>

ToLower(tok) ==
    [k \in DOMAIN tok |->
        IF \E n \in DOMAIN UpperCase : UpperCase[n] = tok[k]
        THEN LowerCase[CHOOSE n \in DOMAIN UpperCase : UpperCase[n] = tok[k]]
        ELSE tok[k]]

\* a token that contains "username" or "password" in any letter case
Sensitive(tok) ==
    contains(ToLower(tok), T_username) \/ contains(ToLower(tok), T_password)

\* C9 (as claimed): the logged argument list masks every token that contains
\* "username" or "password" in any letter case, leaves every other token
\* unchanged and in its position, and holds neither credential value.
C9_MaskCaseInsensitive ==
    /\ Len(log_line) = Len(call_args)
    /\ \A k \in DOMAIN call_args :
          /\ log_line[k] = IF Sensitive(call_args[k]) THEN MASKED ELSE call_args[k]
          /\ log_line[k] \notin {kasa_username, kasa_password}

\* the instant of the cron expression of each job
InstantOf(name) == IF name = "midnight" THEN "00:00" ELSE "17:00"

\* C10: a failed firing leaves its scheduler running with both jobs, leaves
\* the other firings alone, and every firing logs its entry and its outcome;
\* at every scheduled instant each job of a running scheduler that is due
\* fires.
C10_FailureIsLocal ==
    /\ [](\A j \in JobIds :
             job[j].pc = "done" =>
                 /\ Len(job[j].log) >= 3
                 /\ job[j].log[1].level = "info"
                 /\ job[j].log[1].msg =
                       (IF j[2] = "midnight" THEN "Running midnight job at "
                        ELSE "Running 5 PM job at ")
                 /\ LET last == job[j].log[Len(job[j].log)] IN
                    IF job[j].result = "Ok"
                    THEN /\ last.level = "info"
                         /\ last.msg =
                               (IF j[2] = "midnight"
                                THEN "Successfully turned off light at midnight"
                                ELSE "Successfully turned on light at 5 PM")
                    ELSE /\ last.level = "error"
                         /\ last.text = job[j].result
                         /\ scheds[j[1]] = [state |-> "running",
                                            jobs |-> {"midnight", "5pm"}])
    /\ [][/\ \A j \in JobIds :
                (job[j].pc = "proc" /\ job'[j].pc = "done" /\ job'[j].result # "Ok") =>
                     /\ scheds' = scheds
                     /\ \A k \in JobIds \ {j} : job'[k] = job[k]
          /\ clock' # clock =>
                \A j \in JobIds :
                    (/\ scheds[j[1]].state = "running"
                     /\ j[2] \in scheds[j[1]].jobs
                     /\ InstantOf(j[2]) = clock')
                    => job'[j].pc = "spawned"]_vars

C10_Witness ==
    \E j \in JobIds :
        /\ job[j].pc = "spawned"
        /\ \E k \in JobIds \ {j} : job[k].pc = "done" /\ job[k].result # "Ok"

\* the texts the router can reply with
FixedTexts ==
    {"Light turned on!", "Light turned off!", "Light turned on for 15 minutes!",
     "Light turned on for 30 minutes!", "Light turned on for 60 minutes!",
     "Failed to turn on light", "Failed to turn off light",
     "Failed to set timed light", "Unknown button"}

RECURSIVE Text(_)
\* a token as a plain string
Text(tok) == IF tok = <<>> THEN "" ELSE Head(tok) \o Text(Tail(tok))

\* the error details a handler task has met, and the credentials
Details(t) ==
    {t.result} \cup {t.procs[k].stderr : k \in DOMAIN t.procs}
    \cup {"Command failed: " \o t.procs[k].stderr : k \in DOMAIN t.procs}
    \cup {"Failed to execute kasa command: ENOENT", "ENOENT"}
    \cup {Text(kasa_username), Text(kasa_password), Text(kasa_device_ip)}

\* C11: the text of a reply is one of the fixed texts of the router, never the
\* error a device operation returned, a captured stderr or a credential; and a
\* device operation that failed has written an error line with that detail.
C11_ReplyTextFixed ==
    \A i \in Buttons :
        LET t == inter[i] IN
        /\ t.replies > 0 =>
              /\ t.content \in FixedTexts
              /\ t.content \notin Details(t)
        /\ (Finished(t) /\ t.result \notin {"Ok", Nil}) =>
              \E k \in DOMAIN t.log :
                  /\ t.log[k].level = "error"
                  /\ t.log[k].msg \in {"Error turning light on: ",
                                       "Error turning light off: ",
                                       "Error setting timed light: "}
                  /\ t.log[k].text = t.result
                  /\ t.result \in {"Command failed: No route to host",
                                   "Failed to execute kasa command: ENOENT"}

C11_Witness ==
    \E i \in Buttons :
        /\ inter[i].pc = "done"
        /\ inter[i].result = "Command failed: No route to host"
        /\ inter[i].content = "Failed to turn off light"

\* what an executor call returns, given what Command::output met
ResultOf(p) ==
    IF ~p.launched THEN "Failed to execute kasa command: ENOENT"
    ELSE IF p.success THEN "Ok"
    ELSE "Command failed: " \o p.stderr

\* C12: an executor call returns success iff its process was launched and
\* exited with success; it returns a failure with the captured stderr when the
\* process exited with failure, and a failure with the invocation error when
\* the process could not be launched.
C12_ExecutorResult ==
    \A i \in Interactions :
        LET t == inter[i] IN
        /\ Len(t.outcomes) = Len(t.procs)
        /\ \A k \in DOMAIN t.outcomes :
              /\ t.outcomes[k] = "ok" <=> (t.procs[k].launched /\ t.procs[k].success)
              /\ t.outcomes[k] = "failed" <=> (t.procs[k].launched /\ ~t.procs[k].success)
              /\ t.outcomes[k] = "launch_error" <=> ~t.procs[k].launched
        /\ t.result # Nil =>
              /\ t.procs # <<>>
              /\ t.result = ResultOf(t.procs[Len(t.procs)])
              /\ t.result = "Ok" <=>
                    (t.procs[Len(t.procs)].launched /\ t.procs[Len(t.procs)].success)

C12_Witness ==
    \E i \in Interactions :
        /\ inter[i].procs = << [launched |-> TRUE, success |-> TRUE, stderr |-> "warning"] >>
        /\ inter[i].result = "Ok"

\* C13: the plain turn-on issues "on" and then "feature auto_off_enabled
\* False", and no auto_off_minutes command; the turn-off issues "off" and
\* nothing else.
C13_PlainOnAndOff ==
    \A i \in Buttons :
        LET t == inter[i] IN
        /\ t.custom_id = "light_on" =>
              /\ IsPrefix(t.issued, StepsPlain)
              /\ t.pc # "spawned" => Len(t.issued) >= 1
              /\ (Len(t.outcomes) >= 1 /\ t.outcomes[1] = "ok") => t.issued = StepsPlain
              /\ \A k \in DOMAIN t.issued : \A n \in DOMAIN t.issued[k] :
                    t.issued[k][n] # T_auto_off_minutes
        /\ (t.custom_id = "light_off" /\ t.pc # "spawned") => t.issued = StepsOff

C13_Witness ==
    \E i \in Buttons :
        /\ inter[i].custom_id = "light_on"
        /\ inter[i].result = "Ok"
        /\ Len(inter[i].issued) = 2

\* the processes a task has launched
Launched(t) == {k \in DOMAIN t.procs : t.procs[k].launched}

\* the most executor calls an identifier can make
MostCalls(custom_id) ==
    CASE custom_id \in TimedIds -> 3
      [] custom_id = "light_on" -> 2
      [] custom_id = "light_off" -> 1
      [] OTHER -> 0

\* C18 (as claimed): no command is retried, and an interaction launches at most
\* 3 processes (timed-on), at most 2 (plain on), exactly 1 (off) or 0 (unknown).
C18_NoRetryExactLaunches ==
    \A i \in Buttons :
        LET t == inter[i] IN
        /\ Len(t.procs) <= Len(t.issued)
        /\ IsPrefix(t.issued, StepsOf(t.custom_id))
        /\ Cardinality(Launched(t)) <= MostCalls(t.custom_id)
        /\ (Finished(t) /\ t.custom_id = "light_off") => Cardinality(Launched(t)) = 1

\* C18 (amended): every executor call makes at most one launch attempt, every
\* step of the list is issued at most once, so an interaction makes at most 3
\* attempts (timed-on), at most 2 (plain on), exactly 1 (off) or 0 (unknown),
\* and launches at most as many processes; an attempt that fails is the last
\* one, and its failure is what the caller is returned.
C18_NoRetry ==
    \A i \in Buttons :
        LET t == inter[i] IN
        /\ Len(t.procs) <= Len(t.issued)
        /\ Len(t.issued) <= Len(t.procs) + 1
        /\ IsPrefix(t.issued, StepsOf(t.custom_id))
        /\ Len(t.issued) <= MostCalls(t.custom_id)
        /\ Cardinality(Launched(t)) <= MostCalls(t.custom_id)
        /\ (Finished(t) /\ t.custom_id = "light_off") =>
              (Len(t.procs) = 1 /\ Cardinality(Launched(t)) <= 1)
        /\ (Finished(t) /\ t.custom_id \notin KnownIds) => t.procs = <<>>
        /\ \A k \in DOMAIN t.procs :
              ~(t.procs[k].launched /\ t.procs[k].success) =>
                  /\ k = Len(t.issued)
                  /\ t.result = ResultOf(t.procs[k])

C18_Witness ==
    \E i \in Buttons :
        /\ inter[i].pc = "done"
        /\ inter[i].custom_id = "light_off"
        /\ inter[i].procs = <<NotLaunched>>
        /\ inter[i].issued = StepsOff

\* C19: the reply of a recognised button is sent only when every command of
\* its list has completed with success or one has failed, never while a
\* command runs or waits to be issued, and its text tells the outcome of the
\* whole list.
C19_ReplyAfterCommands ==
    /\ [](\A i \in Buttons :
             LET t == inter[i] IN
             t.custom_id \in KnownIds =>
                 /\ t.pc \in {"spawned", "proc", "returned"} => t.replies = 0
                 /\ t.replies > 0 =>
                       /\ Len(t.procs) = Len(t.issued)
                       /\ \/ AllSucceeded(t, StepsOf(t.custom_id))
                          \/ /\ t.procs # <<>>
                             /\ ResultOf(t.procs[Len(t.procs)]) # "Ok"
                             /\ \A k \in 1..(Len(t.procs) - 1) :
                                   ResultOf(t.procs[k]) = "Ok")
    /\ [][\A i \in Interactions :
             (inter'[i].replies > inter[i].replies /\ inter'[i].custom_id \in KnownIds) =>
                 /\ inter[i].pc \in {"spawned", "proc"}
                 /\ inter'[i].pc = "replying"
                 /\ inter'[i].content =
                       IF \A k \in DOMAIN inter'[i].procs :
                             ResultOf(inter'[i].procs[k]) = "Ok"
                       THEN SuccessText(inter'[i].custom_id)
                       ELSE FailureText(inter'[i].custom_id)]_vars

C19_Witness ==
    \E i \in Buttons :
        /\ inter[i].pc = "replying"
        /\ inter[i].custom_id = "light_on"
        /\ inter[i].outcomes = <<"ok", "launch_error">>
        /\ inter[i].replies = 1

\* the schedulers that are running
Running == {k \in SchedIds : scheds[k].state = "running"}

\* C14 (as claimed): whatever ready events were delivered, at most one
\* scheduler is running, and the running schedulers hold two jobs in all, one
\* for each scheduled instant.
C14_SingleScheduler ==
    /\ Cardinality(Running) <= 1
    /\ \A name \in JobNames :
          Running # {} => Cardinality({k \in Running : name \in scheds[k].jobs}) = 1

\* C17: the reference is None before the first ready event; a rebuild writes it
\* at most once for a guild, with the id of the channel that create_channel
\* has just returned, an id newer than the one it replaces; once it holds an
\* id it is never None again.
C17_ReferenceLifecycle ==
    /\ [](/\ readyCount = 0 => control_channel = None
          /\ \A m1, m2 \in ready.made : m1.guild = m2.guild => m1 = m2
          /\ control_channel # None =>
                \E c \in 1..(nextId - 1) : control_channel = Some(c))
    /\ [][/\ control_channel # None => control_channel' # None
          /\ control_channel' # control_channel =>
                /\ ready.pc = "create_channel"
                /\ control_channel' = Some(nextId)
                /\ channels' \ channels =
                      {[id |-> nextId, guild |-> ready.guild, name |-> "light-controls"]}
                /\ \A m \in ready.made : m.guild # ready.guild
                /\ control_channel # None => control_channel[1] < nextId]_vars

C17_Witness ==
    /\ readyCount = 2
    /\ ready.pc = "idle"
    /\ \E m \in ready.made : m.guild = 2 /\ control_channel = Some(m.id)
    /\ Cardinality(ready.made) = 2

\* the positions of the ready handler inside setup_control_channel and
\* inside start_scheduler
SurfacePcs == {"get_guilds", "channels", "delete", "create_channel", "send_message"}
SchedulerPcs == {"scheduler_new", "add_midnight", "add_5pm", "start"}

Range(f) == {f[k] : k \in DOMAIN f}

\* the guilds this rebuild has gone through: a call failed, or a channel was made
Visited == ready.errs \cup {m.guild : m \in ready.made}

\* the ready handler leaves the current guild: for the next one, or for
\* start_scheduler after the last
LeavesGuild ==
    IF ready.left # <<>>
    THEN /\ ready'.pc = "channels"
         /\ ready'.guild = Head(ready.left)
         /\ ready'.left = Tail(ready.left)
    ELSE ready'.pc = "scheduler_new"

\* a press of the "Turn Off" button is answered as the router table says
OffAnswered ==
    \A i \in Buttons :
        (Finished(inter[i]) /\ inter[i].custom_id = "light_off") =>
            /\ inter[i].replies = 1
            /\ inter[i].issued = StepsOff
            /\ inter[i].content = IF inter[i].result = "Ok" THEN "Light turned off!"
                                  ELSE "Failed to turn off light"

\* C15: a failed listing, deletion, creation or posting never ends the
\* rebuild: the deletion loop goes on with the channels left and then creates
\* the channel, the guild loop goes on with the guilds left, start_scheduler is
\* entered after the last guild and never earlier, the ready handler returns
\* only out of start_scheduler, and button presses are answered all along.
C15_SetupErrorsDoNotAbort ==
    /\ [](/\ ready.pc \in SurfacePcs => scheds[readyCount].state = "none"
          /\ ready.pc \in SchedulerPcs =>
                (ready.left = <<>> /\ Visited \in {{}, Range(guilds)})
          /\ (ready.pc = "idle" /\ readyCount > 0) =>
                scheds[readyCount].state \in {"running", "dropped"}
          /\ OffAnswered)
    /\ [][/\ (ready.pc = "channels" /\ ready' # ready) =>
                /\ ready'.guild = ready.guild
                /\ ready'.pc \in {"delete", "create_channel"}
                /\ ready'.errs # ready.errs => ready'.pc = "create_channel"
          /\ (ready.pc = "delete" /\ ready' # ready) =>
                /\ ready'.guild = ready.guild
                /\ IF ready.todo = {}
                   THEN ready'.pc = "create_channel"
                   ELSE /\ ready'.pc = "delete"
                        /\ ready'.cur \in ready.todo
                        /\ ready'.todo = ready.todo \ {ready'.cur}
          /\ (ready.pc = "create_channel" /\ ready' # ready /\ channels' = channels) =>
                LeavesGuild
          /\ (ready.pc = "send_message" /\ ready' # ready) => LeavesGuild
          /\ (ready.pc # "idle" /\ ready'.pc = "idle") => ready.pc \in SchedulerPcs]_vars

C15_Witness ==
    /\ ready.pc = "idle"
    /\ scheds[1].state = "running"
    /\ Cardinality(ready.log) = 3
    /\ Cardinality(ready.errs) = 2
    /\ \E i \in Buttons : inter[i].pc = "done" /\ inter[i].delivered = 1

\* C16: a scheduler whose construction or job registration failed never runs
\* and none of its jobs ever fires, the job registered before the failure
\* included; the ready handler logs the error; a scheduler starts running only
\* out of scheduler.start with both jobs; button presses are answered all along.
C16_SchedulerFailureIsolated ==
    /\ [](/\ \A k \in SchedIds :
                scheds[k].state = "dropped" =>
                    /\ \A name \in JobNames : job[<<k, name>>] = IdleTask
                    /\ k = readyCount =>
                          /\ ready.pc = "idle"
                          /\ \E l \in ready.log :
                                l.level = "error" /\ l.msg = "Failed to start scheduler: "
          /\ OffAnswered)
    /\ [][/\ \A k \in SchedIds :
                /\ scheds[k].state = "dropped" => scheds'[k] = scheds[k]
                /\ (scheds'[k].state = "running" /\ scheds[k].state # "running") =>
                      /\ ready.pc = "start"
                      /\ scheds[k].jobs = {"midnight", "5pm"}
          /\ (ready.pc \in {"scheduler_new", "add_midnight", "add_5pm"}
              /\ ready'.pc = "idle") =>
                scheds'[readyCount].state = "dropped"
          /\ \A j \in JobIds :
                (job'[j].pc = "spawned" /\ job[j].pc # "spawned") =>
                    scheds[j[1]].state = "running"]_vars

C16_Witness ==
    /\ scheds[2] = [state |-> "dropped", jobs |-> {"midnight"}]
    /\ job[<<1, "midnight">>].pc = "done"
    /\ \E i \in Buttons : inter[i].pc = "done" /\ inter[i].content = "Light turned off!"

\* C20: the reference changes only in the step in which create_channel returns
\* a channel; a failed creation leaves it as it was and goes on without posting
\* a message for the guild; a message is posted only into a channel just made;
\* no step of an interaction handler or of a job firing changes the reference
\* or the holder of its lock, which only the rebuild ever takes.
C20_ReferenceFrame ==
    /\ [](/\ lock # Nil => (lock = "ready" /\ ready.pc = "send_message")
          /\ ready.pc = "send_message" =>
                \E m \in ready.made : m.guild = ready.guild /\ m.id = ready.chan)
    /\ [][/\ control_channel' # control_channel =>
                /\ ready.pc = "create_channel"
                /\ channels' # channels
                /\ inter' = inter /\ job' = job
          /\ (ready.pc = "create_channel" /\ ready' # ready /\ channels' = channels) =>
                /\ control_channel' = control_channel
                /\ lock' = lock
                /\ ready'.pc # "send_message"
                /\ ready'.made = ready.made
          /\ (inter' # inter \/ job' # job) =>
                (control_channel' = control_channel /\ lock' = lock)]_vars

C20_Witness ==
    /\ ready.pc = "idle"
    /\ readyCount = 2
    /\ ready.made = {}
    /\ \E l \in ready.log : l.msg = "Error creating control channel: "
    /\ control_channel # None
    /\ \E i \in Buttons : inter[i].pc = "done"
    /\ \E j \in JobIds : job[j].pc = "done"

=============================================================================
